---- MODULE Spec2Model ----
(***************************************************************************)
(* A model of towboot's boot stage: the tracked physical allocation and    *)
(* the header-parser allocator adapter and memory map translator of        *)
(* src/mem.rs, and kernel placement and boot transfer of src/boot.rs.      *)
(*                                                                         *)
(* Physical addresses are u64 values that reach 4 GiB and beyond, so an    *)
(* address is held exactly as a page number and an offset in its page:     *)
(* the byte address is pg * PAGE_SIZE + off.  Byte lengths are small and   *)
(* are plain integers.                                                     *)
(***************************************************************************)
EXTENDS Integers, Sequences, FiniteSets, TLC

\* mem.rs:24
PAGE_SIZE == 4096

\* How many page frames each modelled stretch of physical memory holds.
FramesPerRegion == 2
\* The longest memory map handed to move_to_where_it_should_be.
MaxMapLen == 2
\* The most modules a boot entry declares.
MaxModules == 2
\* How many blocks the host allocator has well below 4 GiB.
HeapBlocks == 2
\* The longest allocation asked of the adapter, and one less than the longest
\* probe length.
MaxLength == 1
\* The most descriptors the platform's memory map holds.
MaxDescs == 3
\* The most characters typed at the menu's prompt before Enter.
MaxTyped == 2

VARIABLES
    used,        \* platform: page numbers currently allocated (firmware's or ours)
    handed,      \* ranges <<page, count>> the platform handed out and has not got back
    entry_quirks,\* the quirks of the boot entry that is being loaded
    allocation,  \* the tracked Allocation (live = FALSE: none exists)
    copied,      \* the core::ptr::copy the last relocation performed, if any
    lastNew,     \* what the last constructor call was given and what it met
    lastMatching,\* the memory map entries the last relocation's filter let through
    apc,         \* "running", or the panic that ended the program
    prepared,    \* the PreparedEntry (live = FALSE: none exists)
    events,      \* the platform and host-allocator calls since prepare_entry began
    lastPrepare, \* what the last prepare_entry was given and what it met
    kernel_buf,  \* the bytes the last prepare_entry wrote at kernel_ptr
    bpc,         \* "idle", "prepared", "jumped", or the panic that ended the program
    allocations, \* MultibootAllocator's table: address -> size of the Layout
    heap,        \* host allocator: the addresses of the blocks it has out
    requested,   \* address -> length asked for, of the blocks allocate returned
                 \* and deallocate has not yet been given
    lastCall,    \* the adapter's last call and what it returned
    mpc,         \* "running", or the panic that ended the program
    mmap_in,     \* what prepare_information was given: descriptors, buffer
    mb_mmap_buf, \* the caller's buffer of memory map entries
    merged,      \* the entries of the buffer the merge loop populated
    mmap_out,    \* the slice prepare_information returned
    multiboot,   \* the Multiboot information: memory bounds and regions count
    ipc,         \* "start", "returned", or the panic that ended the program
    config,      \* the Config choose was given: entries (their keys), default, timeout
    default_entry,\* the entry choose found to be the default
    timer,       \* the countdown's timer event: "none", "armed" or "cancelled"
    shown,       \* whether the list of the available entries has been written
    value,       \* select_entry's String: what has been typed at the prompt
    lastEvent,   \* the last event the menu got, and what came of it
    chosen,      \* what choose returned
    cpc          \* "start", "countdown", "select", "returned", or the panic

platformVars == <<used, handed>>

allocVars == <<entry_quirks, allocation, copied, lastNew, lastMatching, apc>>

bootVars == <<prepared, events, lastPrepare, kernel_buf, bpc>>

adapterVars == <<allocations, heap, requested, lastCall, mpc>>

mmapVars == <<mmap_in, mb_mmap_buf, merged, mmap_out, multiboot, ipc>>

menuVars == <<config, default_entry, timer, shown, value, lastEvent, chosen, cpc>>

vars == <<used, handed, entry_quirks, allocation, copied, lastNew, lastMatching, apc,
          prepared, events, lastPrepare, kernel_buf, bpc,
          allocations, heap, requested, lastCall, mpc,
          mmap_in, mb_mmap_buf, merged, mmap_out, multiboot, ipc,
          config, default_entry, timer, shown, value, lastEvent, chosen, cpc>>

\* what the operations of one component leave alone
notAlloc == <<bootVars, adapterVars, mmapVars, menuVars>>

notBoot == <<allocVars, adapterVars, mmapVars, menuVars>>

notAdapter == <<platformVars, allocVars, bootVars, mmapVars, menuVars>>

notMmap == <<platformVars, allocVars, bootVars, adapterVars, menuVars>>

notMenu == <<platformVars, allocVars, bootVars, adapterVars, mmapVars>>

-----------------------------------------------------------------------------
(* Addresses *)

Addr(pg, off) == [pg |-> pg, off |-> off]

NullAddr == Addr(0, 0)

\* a + n for a byte count n >= 0
AddrPlus(a, n) ==
    LET t == a.off + n
    IN  Addr(a.pg + (t \div PAGE_SIZE), t % PAGE_SIZE)

\* a <= b
AddrLeq(a, b) == a.pg < b.pg \/ (a.pg = b.pg /\ a.off <= b.off)

\* Option<u64>
None == [some |-> FALSE, val |-> NullAddr]

Some(a) == [some |-> TRUE, val |-> a]

SeqsUpTo(S, n) == UNION {[1..k -> S] : k \in 0..n}

\* u32::MAX, the ceiling of mem.rs:88
U32_MAX == Addr(1048575, PAGE_SIZE - 1)

\* 200 * 1024 * 1024, the ceiling of mem.rs:86
MB200 == Addr((200 * 1024 * 1024) \div PAGE_SIZE, 0)

-----------------------------------------------------------------------------
(* The platform's page allocator (UEFI boot services), as the code calls it *)

\* Physical memory: a stretch of frames from 1 MiB on, the last frame below and
\* the first frame at the 200 MiB line, and the same at the 4 GiB line.
LowBase == (1024 * 1024) \div PAGE_SIZE

LowFrames == LowBase .. (LowBase + FramesPerRegion - 1)

Frames == LowFrames \cup {MB200.pg - 1, MB200.pg, U32_MAX.pg, U32_MAX.pg + 1}

FramesOf(pg, count) == pg .. (pg + count - 1)

\* allocate_pages(AllocateType::Address(address), _, count) succeeds
CanAllocateAt(address, count) ==
    /\ count > 0
    /\ address.off = 0
    /\ FramesOf(address.pg, count) \subseteq (Frames \ used)

\* the pages allocate_pages(AllocateType::MaxAddress(limit), _, count) may return:
\* free, contiguous, and all of it at or below limit
MaxAddressCandidates(limit, count) ==
    {p \in Frames :
        /\ count > 0
        /\ FramesOf(p, count) \subseteq (Frames \ used)
        /\ AddrLeq(AddrPlus(Addr(p, 0), count * PAGE_SIZE - 1), limit)}

\* free_pages(ptr, pages) succeeds
CanFree(ptr, pages) ==
    /\ pages > 0
    /\ ptr.off = 0
    /\ FramesOf(ptr.pg, pages) \subseteq used

-----------------------------------------------------------------------------
(* Allocation, src/mem.rs *)

Quirks == {"ModulesBelow200Mb"}

NoAllocation ==
    [live |-> FALSE, ptr |-> NullAddr, len |-> 0, pages |-> 0, should_be_at |-> None]

Allocation(ptr, len, pages, should_be_at) ==
    [live |-> TRUE, ptr |-> ptr, len |-> len, pages |-> pages,
     should_be_at |-> should_be_at]

NoCopy == [done |-> FALSE, src |-> NullAddr, dest |-> NullAddr, len |-> 0]

Copy(src, dest, len) == [done |-> TRUE, src |-> src, dest |-> dest, len |-> len]

NoCall == [op |-> "none", address |-> NullAddr, size |-> 0, quirks |-> {},
           count_pages |-> 0, pinned |-> FALSE, result |-> "none", moved |-> FALSE]

\* a page count that is one more than the whole pages of size
WholePagesPlusOne(size) == (size \div PAGE_SIZE) + 1

calculate_page_count(size) ==
    (size \div PAGE_SIZE) + (IF (size % PAGE_SIZE) = 0 THEN 0 ELSE 1)

\* one ceiling, quirk or no quirk
CeilingU32Max(quirks) == U32_MAX

\* the ceiling new_under_4gb asks the platform for
Ceiling(quirks) ==
    IF "ModulesBelow200Mb" \in quirks THEN MB200 ELSE U32_MAX

\* the closure new_at maps over the fallback allocation (mem.rs:71-74)
WithoutShouldBeAt(a, address) == a

WithShouldBeAt(a, address) == [a EXCEPT !.should_be_at = Some(address)]

\* what new_under_4gb(size, quirks) may return: Err(LOAD_ERROR) when the platform
\* has no such pages, else an Allocation at any place the platform may pick
UnderCeiling(size, quirks) ==
    LET count_pages == calculate_page_count(size)
        cands == MaxAddressCandidates(Ceiling(quirks), count_pages)
    IN  IF cands = {}
        THEN {[result |-> "LOAD_ERROR", alloc |-> NoAllocation]}
        ELSE {[result |-> "Ok",
               alloc |-> Allocation(Addr(p, 0), size, count_pages, None)] :
                 p \in cands}

\* the platform's books once it has handed out the pages of alloc
Hand(alloc) ==
    IF alloc.live
    THEN /\ used' = used \cup FramesOf(alloc.ptr.pg, alloc.pages)
         /\ handed' = handed \cup {<<alloc.ptr.pg, alloc.pages>>}
    ELSE UNCHANGED <<used, handed>>

new_under_4gb(size, quirks) ==
    /\ apc = "running"
    /\ ~allocation.live
    /\ \E r \in UnderCeiling(size, quirks) :
          /\ allocation' = r.alloc
          /\ Hand(r.alloc)
          /\ lastNew' = [op |-> "new_under_4gb", address |-> NullAddr, size |-> size,
                         quirks |-> quirks,
                         count_pages |-> calculate_page_count(size),
                         pinned |-> FALSE, result |-> r.result, moved |-> FALSE]
    /\ copied' = NoCopy
    /\ lastMatching' = <<>>
    /\ UNCHANGED <<entry_quirks, apc, notAlloc>>

new_at(address, size) ==
    /\ apc = "running"
    /\ ~allocation.live
    /\ LET count_pages == calculate_page_count(size)
       IN  IF CanAllocateAt(address, count_pages)
           THEN /\ allocation' = Allocation(address, size, count_pages, None)
                /\ Hand(allocation')
                /\ lastNew' = [op |-> "new_at", address |-> address, size |-> size,
                               quirks |-> {},
                               count_pages |-> count_pages,
                               pinned |-> TRUE, result |-> "Ok", moved |-> FALSE]
           ELSE \E r \in UnderCeiling(size, {}) :
                /\ allocation' = IF r.result = "Ok"
                                 THEN WithShouldBeAt(r.alloc, address)
                                 ELSE r.alloc
                /\ Hand(r.alloc)
                /\ lastNew' = [op |-> "new_at", address |-> address, size |-> size,
                               quirks |-> {},
                               count_pages |-> count_pages,
                               pinned |-> FALSE, result |-> r.result, moved |-> FALSE]
    /\ copied' = NoCopy
    /\ lastMatching' = <<>>
    /\ UNCHANGED <<entry_quirks, apc, notAlloc>>

\* the entries the filter of mem.rs:129-132 lets through, in order
Matching(a, len, memory_map) ==
    SelectSeq(memory_map, LAMBDA e :
        /\ AddrLeq(e.base, a)
        /\ AddrLeq(AddrPlus(a, len), AddrPlus(e.base, e.length)))

\* what move_to_where_it_should_be does to an allocation with target a, in the
\* order the code does it: the copy comes before the check for a second match
MoveOutcome(alloc, memory_map) ==
    LET a == alloc.should_be_at.val
        filter == Matching(a, alloc.len, memory_map)
    IN  IF filter = <<>>
        THEN [copy |-> NoCopy, alloc |-> alloc,
              pc |-> "panic: no memory map entry contains the place"]
        ELSE IF filter[1].ty # "Available"
        THEN [copy |-> NoCopy, alloc |-> alloc, pc |-> "panic: would overwrite"]
        ELSE IF Len(filter) > 1
        THEN [copy |-> Copy(alloc.ptr, a, alloc.len), alloc |-> alloc,
              pc |-> "panic: assertion failed"]
        ELSE [copy |-> Copy(alloc.ptr, a, alloc.len),
              alloc |-> [alloc EXCEPT !.ptr = a, !.should_be_at = None],
              pc |-> "running"]

move_to_where_it_should_be(memory_map) ==
    /\ apc = "running"
    /\ allocation.live
    /\ IF allocation.should_be_at.some
       THEN LET o == MoveOutcome(allocation, memory_map)
            IN  /\ copied' = o.copy
                /\ allocation' = o.alloc
                /\ apc' = o.pc
                /\ lastMatching' = Matching(allocation.should_be_at.val,
                                            allocation.len, memory_map)
       ELSE /\ copied' = NoCopy
            /\ lastMatching' = <<>>
            /\ UNCHANGED <<allocation, apc>>
    /\ lastNew' = [lastNew EXCEPT !.moved = TRUE]
    /\ UNCHANGED <<used, handed, entry_quirks, notAlloc>>

\* Drop for Allocation
drop ==
    /\ apc = "running"
    /\ allocation.live
    /\ IF CanFree(allocation.ptr, allocation.pages)
       THEN /\ used' = used \ FramesOf(allocation.ptr.pg, allocation.pages)
            /\ handed' = handed \ {<<allocation.ptr.pg, allocation.pages>>}
            /\ UNCHANGED apc
       ELSE /\ apc' = "panic: failed to free the allocated memory"
            /\ UNCHANGED <<used, handed>>
    /\ allocation' = NoAllocation
    /\ lastNew' = NoCall
    /\ copied' = NoCopy
    /\ lastMatching' = <<>>
    /\ UNCHANGED <<entry_quirks, notAlloc>>

-----------------------------------------------------------------------------
(* Kernel placement and boot transfer, src/boot.rs *)

\* a - b in bytes
AddrDiff(a, b) == (a.pg - b.pg) * PAGE_SIZE + (a.off - b.off)

\* multiboot1's Multiboot address fields
NoAddresses ==
    [load_address |-> NullAddr, load_end_address |-> NullAddr,
     bss_end_address |-> NullAddr, load_offset |-> 0]

NoPreparedEntry ==
    [live |-> FALSE, kernel_ptr |-> NullAddr, kernel_pages |-> 0,
     addresses |-> NoAddresses, modules_vec |-> 0]

PreparedEntry(kernel_ptr, kernel_pages, addresses, modules_vec) ==
    [live |-> TRUE, kernel_ptr |-> kernel_ptr, kernel_pages |-> kernel_pages,
     addresses |-> addresses, modules_vec |-> modules_vec]

NoPrepare ==
    [image |-> "none", header |-> "none", addresses |-> NoAddresses, modules |-> <<>>,
     kernel_vec |-> <<>>,
     pinned_failed |-> FALSE, fallback_possible |-> FALSE, kernel_range |-> <<>>,
     result |-> "none"]

\* boot.rs:51-54
kernel_length(addresses) ==
    IF addresses.bss_end_address = NullAddr
    THEN AddrDiff(addresses.load_end_address, addresses.load_address)
    ELSE AddrDiff(addresses.bss_end_address, addresses.load_address)

\* boot.rs:55
kernel_pages(length) == (length \div PAGE_SIZE) + 1

\* boot.rs:71, the bytes of the load segment
load_length(addresses) ==
    AddrDiff(addresses.load_end_address, addresses.load_address)

\* the iterator of boot.rs:69-72 read up to its n-th item: the file from
\* load_offset on, at most take_n bytes of it, and zeroes ever after
Source(kernel_vec, load_offset, take_n, n) ==
    [i \in 1..n |-> IF i <= take_n /\ load_offset + i <= Len(kernel_vec)
                    THEN kernel_vec[load_offset + i]
                    ELSE 0]

\* boot.rs:64-74: kernel_buf is kernel_length bytes at kernel_ptr, and each is
\* assigned the item zipped with it
SegmentCopy(kernel_vec, addresses) ==
    Source(kernel_vec, addresses.load_offset, load_length(addresses),
           kernel_length(addresses))

\* the collect of boot.rs:79-81 gives every buffer, or the first error
ModulesLoaded(modules) == \A k \in DOMAIN modules : modules[k] = "ok"

\* the modules read_file is called for: all, or up to the first that fails
ModulesRead(modules) ==
    {k \in DOMAIN modules : \A j \in 1..(k - 1) : modules[j] = "ok"}

\* prepare_entry(entry, volume, systab): image and modules are what read_file
\* gives for the kernel and for each module, header is what multiboot1::parse finds
prepare_entry(image, kernel_vec, header, addresses, modules) ==
    /\ bpc = "idle"
    /\ UNCHANGED notBoot
    /\ LET call == [NoPrepare EXCEPT !.image = image, !.header = header,
                                     !.addresses = addresses, !.modules = modules,
                                     !.kernel_vec = kernel_vec]
           length == kernel_length(addresses)
           pages == kernel_pages(length)
           ptr == addresses.load_address
       IN  IF image # "ok"
           THEN /\ lastPrepare' = [call EXCEPT !.result = "Err"]
                /\ events' = <<"read_file">>
                /\ kernel_buf' = <<>>
                /\ UNCHANGED <<used, handed, prepared, bpc>>
           ELSE IF header = "malformed"
           THEN /\ lastPrepare' = [call EXCEPT !.result = "LOAD_ERROR"]
                /\ events' = <<"read_file">>
                /\ kernel_buf' = <<>>
                /\ UNCHANGED <<used, handed, prepared, bpc>>
           ELSE IF header = "Elf"
           THEN /\ lastPrepare' = [call EXCEPT !.result = "panic"]
                /\ events' = <<"read_file">>
                /\ bpc' = "panic: not yet implemented: handle ELF addresses"
                /\ kernel_buf' = <<>>
                /\ UNCHANGED <<used, handed, prepared>>
           ELSE IF ~CanAllocateAt(ptr, pages)
           THEN /\ lastPrepare' =
                      [call EXCEPT !.result = "LOAD_ERROR", !.pinned_failed = TRUE,
                         !.fallback_possible =
                            MaxAddressCandidates(U32_MAX,
                                calculate_page_count(length)) # {}]
                /\ events' = <<"read_file", "allocate_pages">>
                /\ kernel_buf' = <<>>
                /\ UNCHANGED <<used, handed, prepared, bpc>>
           ELSE /\ used' = used \cup FramesOf(ptr.pg, pages)
                /\ handed' = handed \cup {<<ptr.pg, pages>>}
                /\ events' = <<"read_file", "allocate_pages">>
                                \o [k \in ModulesRead(modules) |-> "read_file"]
                /\ kernel_buf' = SegmentCopy(kernel_vec, addresses)
                /\ IF ModulesLoaded(modules)
                   THEN /\ prepared' = PreparedEntry(ptr, pages, addresses, Len(modules))
                        /\ lastPrepare' = [call EXCEPT !.result = "Ok",
                                                       !.kernel_range = <<ptr.pg, pages>>]
                        /\ bpc' = "prepared"
                   ELSE /\ lastPrepare' = [call EXCEPT !.result = "Err",
                                                       !.kernel_range = <<ptr.pg, pages>>]
                        /\ UNCHANGED <<prepared, bpc>>

\* Drop for PreparedEntry: the boot is aborted
drop_prepared ==
    /\ bpc = "prepared"
    /\ prepared.live
    /\ events' = Append(events, "free_pages")
    /\ IF CanFree(prepared.kernel_ptr, prepared.kernel_pages)
       THEN /\ used' = used \ FramesOf(prepared.kernel_ptr.pg, prepared.kernel_pages)
            /\ handed' = handed \ {<<prepared.kernel_ptr.pg, prepared.kernel_pages>>}
            /\ bpc' = "idle"
       ELSE /\ bpc' = "panic: failed to free the allocated memory for the kernel"
            /\ UNCHANGED <<used, handed>>
    /\ prepared' = NoPreparedEntry
    /\ UNCHANGED <<lastPrepare, kernel_buf, notBoot>>

\* PreparedEntry::boot, up to the call of the kernel's entry address;
\* exit_ok is whether the platform lets go of its boot services
boot(exit_ok) ==
    /\ bpc = "prepared"
    /\ prepared.live
    /\ IF exit_ok
       THEN /\ events' = events \o <<"memory_map_size", "alloc", "exit_boot_services",
                                     "jump">>
            /\ bpc' = "jumped"
       ELSE /\ events' = events \o <<"memory_map_size", "alloc", "exit_boot_services">>
            /\ bpc' = "panic: failed to exit boot services"
    /\ UNCHANGED <<used, handed, prepared, lastPrepare, kernel_buf, notBoot>>

\* the kernel returns from its entry point: unreachable!()
kernel_returns ==
    /\ bpc = "jumped"
    /\ bpc' = "panic: internal error: entered unreachable code"
    /\ UNCHANGED <<used, handed, prepared, events, lastPrepare, kernel_buf, notBoot>>

-----------------------------------------------------------------------------
(* MultibootAllocator, src/mem.rs *)

EmptyMap == [a \in {} |-> 0]

\* BTreeMap::insert
Insert(map, key, layout) ==
    [a \in DOMAIN map \cup {key} |-> IF a = key THEN layout ELSE map[a]]

\* BTreeMap::remove
Remove(map, key) == [a \in DOMAIN map \ {key} |-> map[a]]

\* Where the host allocator has blocks: well below 4 GiB, and at u32::MAX - 1,
\* u32::MAX and 4 GiB.
HeapAddrs ==
    {Addr(16 + i, 0) : i \in 1..HeapBlocks}
        \cup {Addr(U32_MAX.pg, PAGE_SIZE - 2), U32_MAX, Addr(U32_MAX.pg + 1, 0)}

\* what alloc(layout) may return: null, or a block it does not have out
HostAlloc == {NullAddr} \cup (HeapAddrs \ heap)

NoAdapterCall ==
    [op |-> "none", addr |-> NullAddr, length |-> 0, result |-> "none",
     slice_len |-> 0, known |-> FALSE]

\* the length of the slice paddr_to_slice builds for an entry of the table
SliceLenProbe(layout_size, length) == length

SliceLen(layout_size, length) == layout_size

paddr_to_slice(addr, length) ==
    /\ mpc = "running"
    /\ lastCall' =
          IF addr \in DOMAIN allocations
          THEN [op |-> "paddr_to_slice", addr |-> addr, length |-> length,
                result |-> "Some", slice_len |-> SliceLen(allocations[addr], length),
                known |-> addr \in DOMAIN requested]
          ELSE [op |-> "paddr_to_slice", addr |-> addr, length |-> length,
                result |-> "None", slice_len |-> 0,
                known |-> addr \in DOMAIN requested]
    /\ UNCHANGED <<allocations, heap, requested, mpc, notAdapter>>

allocate(length) ==
    /\ mpc = "running"
    /\ \E ptr \in HostAlloc :
          LET call == [op |-> "allocate", addr |-> ptr, length |-> length,
                       result |-> "None", slice_len |-> 0,
                       known |-> ptr \in DOMAIN requested]
          IN  IF AddrLeq(U32_MAX, ptr)
              THEN /\ lastCall' = call
                   /\ heap' = heap \cup {ptr}
                   /\ UNCHANGED <<allocations, requested>>
              ELSE IF ptr = NullAddr
              THEN /\ lastCall' = call
                   /\ UNCHANGED <<allocations, heap, requested>>
              ELSE /\ allocations' = Insert(allocations, ptr, length)
                   /\ heap' = heap \cup {ptr}
                   /\ requested' = Insert(requested, ptr, length)
                   /\ lastCall' = [call EXCEPT !.result = "Some", !.slice_len = length]
    /\ UNCHANGED <<mpc, notAdapter>>

deallocate(addr) ==
    /\ mpc = "running"
    /\ lastCall' = [op |-> "deallocate", addr |-> addr, length |-> 0,
                    result |-> "none", slice_len |-> 0,
                    known |-> addr \in DOMAIN requested]
    /\ IF addr = NullAddr
       THEN UNCHANGED <<allocations, heap, mpc>>
       ELSE IF addr \notin DOMAIN allocations
       THEN /\ mpc' = "panic: couldn't free memory that has not been previously allocated"
            /\ UNCHANGED <<allocations, heap>>
       ELSE /\ allocations' = Remove(allocations, addr)
            /\ heap' = heap \ {addr}
            /\ UNCHANGED mpc
    /\ requested' = Remove(requested, addr)
    /\ UNCHANGED notAdapter

-----------------------------------------------------------------------------
(* prepare_information, src/mem.rs *)

\* 1024 * 1024
MiB1 == Addr((1024 * 1024) \div PAGE_SIZE, 0)

\* the match of mem.rs:245-262 without its last arm's caution
ClassifyRestAvailable(ty) ==
    CASE ty \in {"RUNTIME_SERVICES_CODE", "RUNTIME_SERVICES_DATA"} -> "Reserved"
      [] ty = "UNUSABLE" -> "Defect"
      [] ty = "ACPI_RECLAIM" -> "ACPI"
      [] ty = "ACPI_NON_VOLATILE" -> "NVS"
      [] ty \in {"MMIO", "MMIO_PORT_SPACE", "PAL_CODE"} -> "Reserved"
      [] OTHER -> "Available"

\* the match of mem.rs:245-262
Classify(ty) ==
    CASE ty \in {"LOADER_CODE", "LOADER_DATA", "BOOT_SERVICES_CODE",
                 "BOOT_SERVICES_DATA"} -> "Available"
      [] ty \in {"RUNTIME_SERVICES_CODE", "RUNTIME_SERVICES_DATA"} -> "Reserved"
      [] ty = "CONVENTIONAL" -> "Available"
      [] ty = "UNUSABLE" -> "Defect"
      [] ty = "ACPI_RECLAIM" -> "ACPI"
      [] ty = "ACPI_NON_VOLATILE" -> "NVS"
      [] ty \in {"MMIO", "MMIO_PORT_SPACE", "PAL_CODE"} -> "Reserved"
      [] ty = "PERSISTENT_MEMORY" -> "Available"
      [] OTHER -> "Reserved"

\* multiboot::information::MemoryEntry::new
MemoryEntry(base, length, ty) == [base |-> base, length |-> length, ty |-> ty]

\* the entry built from a descriptor, its length left in pages
NextEntryInPages(descriptor) ==
    MemoryEntry(descriptor.phys_start, descriptor.page_count, Classify(descriptor.ty))

\* the entry built from a descriptor (mem.rs:244-263)
NextEntry(descriptor) ==
    MemoryEntry(descriptor.phys_start, descriptor.page_count * PAGE_SIZE,
                Classify(descriptor.ty))

\* the test of mem.rs:269-275 with one half left out
JoinsWhateverType(current_entry, next_entry) ==
    next_entry.base = AddrPlus(current_entry.base, current_entry.length)

\* the test of mem.rs:269-275: same type, and next begins where current ends
Joins(current_entry, next_entry) ==
    /\ next_entry.ty = current_entry.ty
    /\ next_entry.base = AddrPlus(current_entry.base, current_entry.length)

\* One turn of the loop of mem.rs:243-287 on the loop's state: the buffer, count,
\* the place of current_entry in the buffer, and whether an unwrap has panicked.
MergeStep(st, descriptor) ==
    LET next_entry == NextEntry(descriptor)
        current_entry == st.buf[st.cur]
    IN  IF st.panic
        THEN st
        ELSE IF st.count = 0
        THEN [st EXCEPT !.buf[st.cur] = next_entry, !.count = 1]
        ELSE IF Joins(current_entry, next_entry)
        THEN [st EXCEPT !.buf[st.cur] =
                 MemoryEntry(current_entry.base,
                             current_entry.length + next_entry.length,
                             current_entry.ty)]
        ELSE IF st.cur + 1 > Len(st.buf)
        THEN [st EXCEPT !.panic = TRUE]
        ELSE [st EXCEPT !.buf[st.cur + 1] = next_entry, !.cur = st.cur + 1,
                        !.count = st.count + 1]

\* the loop from descriptor i on (each turn's state is worked out once)
RECURSIVE MergeLoop(_, _, _)
MergeLoop(st, descriptors, i) ==
    IF i > Len(descriptors)
    THEN st
    ELSE CHOOSE r \in {MergeLoop(turned, descriptors, i + 1) :
                          turned \in {MergeStep(st, descriptors[i])}} : TRUE

\* the first entry of the whole buffer at 1 MiB (mem.rs:296), 0 if there is none
FindMiB1(buf) ==
    IF \E k \in DOMAIN buf : buf[k].base = MiB1
    THEN CHOOSE k \in DOMAIN buf :
            /\ buf[k].base = MiB1
            /\ \A j \in 1..(k - 1) : buf[j].base # MiB1
    ELSE 0

NoBounds == [set |-> FALSE, lower |-> 0, upper |-> 0, regions |-> 0]

prepare_information(descriptors, buf) ==
    /\ ipc = "start"
    /\ mmap_in' = [descriptors |-> descriptors, buf |-> buf]
    /\ IF buf = <<>>
       THEN /\ ipc' = "panic: unwrap of None: the buffer has no next entry"
            /\ UNCHANGED <<mb_mmap_buf, merged, mmap_out, multiboot>>
       ELSE \E st \in {MergeLoop([buf |-> buf, count |-> 0, cur |-> 1,
                                    panic |-> FALSE], descriptors, 1)} :
            \E found \in {FindMiB1(st.buf)} :
                /\ mb_mmap_buf' = st.buf
                /\ IF st.panic
                   THEN /\ ipc' = "panic: unwrap of None: the buffer has no next entry"
                        /\ UNCHANGED <<merged, mmap_out, multiboot>>
                   ELSE /\ merged' = SubSeq(st.buf, 1, st.count)
                        /\ IF found = 0
                           THEN /\ ipc' = "panic: unwrap of None: no entry at 1 MiB"
                                /\ UNCHANGED <<mmap_out, multiboot>>
                           ELSE /\ multiboot' =
                                      [set |-> TRUE, lower |-> 640,
                                       upper |-> st.buf[found].length \div 1024,
                                       regions |-> st.count]
                                /\ mmap_out' = SubSeq(st.buf, 1, st.count)
                                /\ ipc' = "returned"
    /\ UNCHANGED notMmap

-----------------------------------------------------------------------------
(* The boot menu, src/menu.rs *)

\* Strings are sequences of characters; "CR" is '\r' and "BS" is '\u{8}'.
CodePoint(c) ==
    CASE c = "BS" -> 8
      [] c = "CR" -> 13
      [] c = "+" -> 43
      [] c = "0" -> 48
      [] c = "1" -> 49
      [] c = "2" -> 50
      [] c = "3" -> 51
      [] c = "4" -> 52
      [] c = "5" -> 53
      [] c = "6" -> 54
      [] c = "7" -> 55
      [] c = "8" -> 56
      [] c = "9" -> 57
      [] c = "a" -> 97

IsDigit(c) == CodePoint(c) \in 48..57

\* the order of String keys in a BTreeMap
StrLess(a, b) ==
    \E k \in 0..Len(a) :
        /\ k <= Len(b)
        /\ \A j \in 1..k : a[j] = b[j]
        /\ \/ k = Len(a) /\ k < Len(b)
           \/ k < Len(a) /\ k < Len(b) /\ CodePoint(a[k + 1]) < CodePoint(b[k + 1])

\* Option<&Entry>; an entry is known by its key
NoEntry == [some |-> FALSE, key |-> <<>>]

SomeEntry(key) == [some |-> TRUE, key |-> key]

\* Option<u8>, the timeout of the Config
NoTimeout == [some |-> FALSE, val |-> 0]

SomeTimeout(t) == [some |-> TRUE, val |-> t]

\* entries.get(&key)
Get(entries, key) == IF key \in entries THEN SomeEntry(key) ELSE NoEntry

\* entries.values().nth(index), counting from the entry of the least key
Nth(entries, index) ==
    LET at == {k \in entries : Cardinality({j \in entries : StrLess(j, k)}) = index}
    IN  IF at = {} THEN NoEntry ELSE SomeEntry(CHOOSE k \in at : TRUE)

RECURSIVE DecimalValue(_)
DecimalValue(digits) ==
    IF digits = <<>>
    THEN 0
    ELSE DecimalValue(SubSeq(digits, 1, Len(digits) - 1)) * 10
            + (CodePoint(digits[Len(digits)]) - 48)

\* value.parse::<usize>(): an optional plus sign, then decimal digits and
\* nothing else
ParseUsize(str) ==
    LET digits == IF str # <<>> /\ str[1] = "+" THEN Tail(str) ELSE str
    IN  IF digits = <<>> \/ \E k \in DOMAIN digits : ~IsDigit(digits[k])
        THEN [ok |-> FALSE, index |-> 0]
        ELSE [ok |-> TRUE, index |-> DecimalValue(digits)]

\* the lookup of menu.rs:120-123: by index if the text is a number, else by key
Lookup(entries, str) ==
    IF ParseUsize(str).ok
    THEN Nth(entries, ParseUsize(str).index)
    ELSE Get(entries, str)

NoConfig == [entries |-> {}, default |-> <<>>, timeout |-> NoTimeout]

NoEvent ==
    [at |-> "none", event |-> "none", before |-> <<>>, result |-> "none",
     stdout |-> "none"]

\* what the menu got, what select_entry made of it, and whether the writes to
\* the console that followed, if any, went well
Event(at, event, before, result, stdout) ==
    [at |-> at, event |-> event, before |-> before, result |-> result,
     stdout |-> stdout]

\* writeln!(systab.stdout(), ...).unwrap() when the console fails
WritePanic == "panic: called Result::unwrap() on an Err value: Error"

NoChoice == [some |-> FALSE, key |-> <<>>, by |-> "none"]

Choice(key, by) == [some |-> TRUE, key |-> key, by |-> by]

\* menu.rs:25-28: the entry keyed by config.default, else the first entry;
\* NoEntry stands for the panic of expect("no entries")
DefaultEntry(cfg) ==
    IF Get(cfg.entries, cfg.default).some
    THEN Get(cfg.entries, cfg.default)
    ELSE Nth(cfg.entries, 0)

\* choose(config, systab), up to display_menu's first wait for an event;
\* timer_ok is whether the platform creates and sets the timer, stdout_ok
\* whether it writes to the console
choose(cfg, timer_ok, stdout_ok) ==
    /\ cpc = "start"
    /\ config' = cfg
    /\ UNCHANGED notMenu
    /\ IF ~DefaultEntry(cfg).some
       THEN /\ cpc' = "panic: no entries"
            /\ lastEvent' = NoEvent
            /\ UNCHANGED <<default_entry, timer, shown, value, chosen>>
       ELSE LET found == DefaultEntry(cfg).key
            IN  /\ default_entry' = found
                /\ IF cfg.timeout = SomeTimeout(0)
                   THEN /\ chosen' = Choice(found, "timeout 0")
                        /\ cpc' = "returned"
                        /\ lastEvent' = NoEvent
                        /\ UNCHANGED <<timer, shown, value>>
                   ELSE IF ~stdout_ok
                   THEN /\ cpc' = WritePanic
                        /\ lastEvent' = Event("choose", "none", <<>>, "none", "error")
                        /\ UNCHANGED <<timer, shown, value, chosen>>
                   ELSE IF ~cfg.timeout.some
                   THEN /\ shown' = TRUE
                        /\ value' = <<>>
                        /\ cpc' = "select"
                        /\ lastEvent' = Event("choose", "none", <<>>, "none", "ok")
                        /\ UNCHANGED <<timer, chosen>>
                   ELSE IF timer_ok
                   THEN /\ timer' = "armed"
                        /\ cpc' = "countdown"
                        /\ lastEvent' = Event("choose", "none", <<>>, "none", "ok")
                        /\ UNCHANGED <<shown, value, chosen>>
                   ELSE /\ chosen' = Choice(found, "error")
                        /\ cpc' = "returned"
                        /\ lastEvent' =
                              Event("choose", "timer error", <<>>, "none", "ok")
                        /\ UNCHANGED <<timer, shown, value>>

\* a countdown that any key ends
BreaksOnAnyKey(event) == event \in {"key ESCAPE", "key other"}

\* the match of menu.rs:70-73: the key that ends the countdown
Breaks(event) == event = "key ESCAPE"

\* display_menu, one turn of the countdown loop of menu.rs:61-78 and, after
\* the break, up to select_entry's first wait; event is what wait_for_event
\* and read_key gave, cancel_ok whether the platform cancels the timer,
\* stdout_ok whether it writes to the console
display_menu(event, cancel_ok, stdout_ok) ==
    /\ cpc = "countdown"
    /\ lastEvent' =
          Event("countdown", event, value, "none",
                IF Breaks(event) /\ cancel_ok
                THEN (IF stdout_ok THEN "ok" ELSE "error")
                ELSE "none")
    /\ UNCHANGED <<config, default_entry, notMenu>>
    /\ IF event = "timer"
       THEN /\ chosen' = Choice(default_entry, "timer")
            /\ cpc' = "returned"
            /\ UNCHANGED <<timer, shown, value>>
       ELSE IF event \in {"wait_for_event error", "read_key error"}
       THEN /\ chosen' = Choice(default_entry, "error")
            /\ cpc' = "returned"
            /\ UNCHANGED <<timer, shown, value>>
       ELSE IF Breaks(event)
       THEN IF cancel_ok /\ ~stdout_ok
            THEN /\ timer' = "cancelled"
                 /\ cpc' = WritePanic
                 /\ UNCHANGED <<shown, value, chosen>>
            ELSE IF cancel_ok
            THEN /\ timer' = "cancelled"
                 /\ shown' = TRUE
                 /\ value' = <<>>
                 /\ cpc' = "select"
                 /\ UNCHANGED chosen
            ELSE /\ chosen' = Choice(default_entry, "error")
                 /\ cpc' = "returned"
                 /\ UNCHANGED <<timer, shown, value>>
       ELSE UNCHANGED <<timer, shown, value, chosen, cpc>>

\* select_entry, one turn of the loop of menu.rs:104-117 and, on Enter, the
\* lookup and display_menu's match on it (menu.rs:87-94); c is the key read,
\* stdout_ok whether the platform writes what the turn writes to the console
\* (the prompt again, the end of the line, the invalid choice)
select_entry(c, stdout_ok) ==
    /\ cpc = "select"
    /\ UNCHANGED <<config, default_entry, timer, shown, notMenu>>
    /\ IF ~stdout_ok
       THEN /\ cpc' = WritePanic
            /\ lastEvent' = Event("select", c, value, "none", "error")
            /\ UNCHANGED <<value, chosen>>
       ELSE IF c \in {"wait_for_event error", "read_key error"}
       THEN /\ value' = <<>>
            /\ lastEvent' = Event("select", c, value, "Err", "ok")
            /\ UNCHANGED <<chosen, cpc>>
       ELSE IF c \in {"special key", "no key"}
       THEN /\ lastEvent' = Event("select", c, value, "none", "ok")
            /\ UNCHANGED <<value, chosen, cpc>>
       ELSE IF c = "CR"
       THEN LET found == Lookup(config.entries, value)
            IN  IF found.some
                THEN /\ chosen' = Choice(found.key, "select")
                     /\ cpc' = "returned"
                     /\ lastEvent' = Event("select", c, value, "Ok", "ok")
                     /\ UNCHANGED value
                ELSE /\ value' = <<>>
                     /\ lastEvent' = Event("select", c, value, "Err", "ok")
                     /\ UNCHANGED <<chosen, cpc>>
       ELSE IF c = "BS"
       THEN /\ value' = SubSeq(value, 1, Len(value) - 1)
            /\ lastEvent' = Event("select", c, value, "none", "ok")
            /\ UNCHANGED <<chosen, cpc>>
       ELSE /\ Len(value) < MaxTyped
            /\ value' = Append(value, c)
            /\ lastEvent' = Event("select", c, value, "none", "ok")
            /\ UNCHANGED <<chosen, cpc>>

-----------------------------------------------------------------------------
(* The callers' inputs, and the specifications *)

Sizes == {0, 1, PAGE_SIZE - 1, PAGE_SIZE, PAGE_SIZE + 1, 2 * PAGE_SIZE}

\* where new_at is asked to allocate: at each frame, and at an address that is
\* not page-aligned
Addresses == {Addr(p, 0) : p \in Frames} \cup {Addr(LowBase, 8)}

\* memory map entries that begin at 1 MiB: one page or two, Available or not
MapEntries ==
    [base : {Addr(LowBase, 0)},
     length : {PAGE_SIZE, 2 * PAGE_SIZE},
     ty : {"Available", "Reserved"}]

MemoryMaps == SeqsUpTo(MapEntries, MaxMapLen)

LoadAddresses == {Addr(p, 0) : p \in LowFrames}

\* a header: a load segment of s bytes found o bytes into the file, and no bss
\* end (b = 0) or a bss end b bytes after the load end (before it, if b < 0)
AddressField(a, s, b, o) ==
    [load_address |-> a, load_end_address |-> AddrPlus(a, s),
     bss_end_address |-> IF b = 0 THEN NullAddr ELSE AddrPlus(a, s + b),
     load_offset |-> o]

\* the headers of the kernel images: a load segment of a page at the file's
\* first byte, to be loaded at any of the load addresses, and load segments of
\* 1 or 2 bytes at the file's first or second byte
AddressFields ==
    {AddressField(a, PAGE_SIZE, b, 0) : a \in LoadAddresses, b \in {0, 1}}
        \cup {AddressField(Addr(LowBase, 0), s, b, o) :
                 s \in {1, 2}, b \in {-1, 0, 1}, o \in {0, 1}}

\* the bytes of the kernel files
KernelFiles == {<<7, 8, 9>>, <<7>>}

ModuleLists == SeqsUpTo({"ok", "fail"}, MaxModules)

\* Before anything has run: the firmware holds some frames, the boot entry has
\* its quirks, and no Allocation and no PreparedEntry exists.
Init(firmware, quirks) ==
    /\ used = firmware
    /\ handed = {}
    /\ entry_quirks = quirks
    /\ allocation = NoAllocation
    /\ copied = NoCopy
    /\ lastNew = NoCall
    /\ lastMatching = <<>>
    /\ apc = "running"
    /\ prepared = NoPreparedEntry
    /\ events = <<>>
    /\ lastPrepare = NoPrepare
    /\ kernel_buf = <<>>
    /\ bpc = "idle"
    /\ allocations = EmptyMap
    /\ heap = {}
    /\ requested = EmptyMap
    /\ lastCall = NoAdapterCall
    /\ mpc = "running"
    /\ mmap_in = [descriptors |-> <<>>, buf |-> <<>>]
    /\ mb_mmap_buf = <<>>
    /\ merged = <<>>
    /\ mmap_out = <<>>
    /\ multiboot = NoBounds
    /\ ipc = "start"
    /\ config = NoConfig
    /\ default_entry = <<>>
    /\ timer = "none"
    /\ shown = FALSE
    /\ value = <<>>
    /\ lastEvent = NoEvent
    /\ chosen = NoChoice
    /\ cpc = "start"

AllocNext ==
    \/ \E address \in Addresses, size \in Sizes : new_at(address, size)
    \/ \E size \in Sizes, quirks \in SUBSET Quirks : new_under_4gb(size, quirks)
    \/ \E memory_map \in MemoryMaps : move_to_where_it_should_be(memory_map)
    \/ drop

SpecAlloc ==
    /\ \E firmware \in SUBSET LowFrames, quirks \in SUBSET Quirks : Init(firmware, quirks)
    /\ [][AllocNext]_vars

\* an image that cannot be read or holds no Multiboot addresses has no address
\* fields, and its entry's modules are never looked at
BootNext ==
    \/ \E image \in {"ok", "fail"}, header \in {"malformed", "Elf"} :
            prepare_entry(image, <<>>, header, NoAddresses, <<>>)
    \/ /\ bpc = "idle"  \* (the guard, before the inputs are drawn)
       /\ \E addresses \in AddressFields, modules \in ModuleLists :
            prepare_entry("ok", <<7, 8, 9>>, "Multiboot", addresses, modules)
    \/ /\ bpc = "idle"
       /\ \E kernel_vec \in KernelFiles, addresses \in AddressFields :
            prepare_entry("ok", kernel_vec, "Multiboot", addresses, <<>>)
    \/ drop_prepared
    \/ \E exit_ok \in BOOLEAN : boot(exit_ok)
    \/ kernel_returns

SpecBoot == (\E firmware \in SUBSET LowFrames : Init(firmware, {})) /\ [][BootNext]_vars

Lengths == 0..MaxLength

AdapterNext ==
    \/ \E length \in Lengths : allocate(length)
    \/ \E addr \in HeapAddrs \cup {NullAddr}, length \in 0..(MaxLength + 1) :
            paddr_to_slice(addr, length)
    \/ \E addr \in HeapAddrs \cup {NullAddr} : deallocate(addr)

SpecAdapter == Init({}, {}) /\ [][AdapterNext]_vars

\* the platform's descriptors: of three types, two of which classify alike,
\* beginning a page below 1 MiB, at 1 MiB or a page above, one or two pages long
Descriptors ==
    [ty : {"CONVENTIONAL", "LOADER_DATA", "RUNTIME_SERVICES_DATA"},
     phys_start : {Addr(MiB1.pg - 1, 0), MiB1, Addr(MiB1.pg + 1, 0)},
     page_count : {1, 2}]

\* what the caller's buffer holds before the call: nothing yet, or what an
\* earlier use left in it
ZeroEntry == MemoryEntry(NullAddr, 0, "none")

StaleEntry == MemoryEntry(MiB1, 16 * 1024 * 1024, "Available")

Buffers ==
    {[k \in 1..n |-> e] : n \in {1, MaxDescs + 1}, e \in {ZeroEntry, StaleEntry}}

\* uefi's MemoryType: the types it names, and one it does not
MemoryTypes ==
    {"RESERVED", "LOADER_CODE", "LOADER_DATA", "BOOT_SERVICES_CODE",
     "BOOT_SERVICES_DATA", "RUNTIME_SERVICES_CODE", "RUNTIME_SERVICES_DATA",
     "CONVENTIONAL", "UNUSABLE", "ACPI_RECLAIM", "ACPI_NON_VOLATILE", "MMIO",
     "MMIO_PORT_SPACE", "PAL_CODE", "PERSISTENT_MEMORY", "custom 0x80000000"}

\* memory maps of two regions of any types, a page at 1 MiB and the page after
TypedMaps ==
    {<<[ty |-> t1, phys_start |-> MiB1, page_count |-> 1],
       [ty |-> t2, phys_start |-> Addr(MiB1.pg + 1, 0), page_count |-> 1]>> :
        t1 \in MemoryTypes, t2 \in MemoryTypes}

MmapNext ==
    \/ /\ ipc = "start"  \* (the guard, before the inputs are drawn)
       /\ \E descriptors \in SeqsUpTo(Descriptors, MaxDescs), buf \in Buffers :
             prepare_information(descriptors, buf)
    \/ /\ ipc = "start"
       /\ \E descriptors \in TypedMaps, buf \in Buffers :
             prepare_information(descriptors, buf)

SpecMmap == Init({}, {}) /\ [][MmapNext]_vars

\* the characters typed at the prompt
Chars == {"1", "a"}

\* the keys of the entries of the configuration file
EntryKeys == {<<>>, <<"1">>, <<"a">>}

\* the configurations: any entries, a default that is among them or not, and
\* no timeout, none to wait, or some seconds
Configs ==
    [entries : SUBSET EntryKeys,
     default : EntryKeys,
     timeout : {NoTimeout, SomeTimeout(0), SomeTimeout(5)}]

\* what wait_for_event and read_key may give during the countdown
CountdownEvents ==
    {"timer", "key ESCAPE", "key other", "no key", "invalid event",
     "wait_for_event error", "read_key error"}

\* what wait_for_event and read_key may give at the prompt
SelectEvents ==
    Chars \cup {"CR", "BS", "special key", "no key",
                "wait_for_event error", "read_key error"}

MenuNext ==
    \/ \E cfg \in Configs, timer_ok \in BOOLEAN, stdout_ok \in BOOLEAN :
            choose(cfg, timer_ok, stdout_ok)
    \/ \E event \in CountdownEvents, cancel_ok \in BOOLEAN, stdout_ok \in BOOLEAN :
            display_menu(event, cancel_ok, stdout_ok)
    \/ \E c \in SelectEvents, stdout_ok \in BOOLEAN : select_entry(c, stdout_ok)

SpecMenu == Init({}, {}) /\ [][MenuNext]_vars

-----------------------------------------------------------------------------
(* Claims about Allocation *)

\* the last call was a relocation of an allocation that had a pending target
RelocatedPending == lastNew.moved /\ lastNew.op = "new_at" /\ ~lastNew.pinned

\* C1: a relocation with a pending target copies only if exactly one memory map
\* entry contains the target range and that entry is Available; otherwise it
\* panics and has copied nothing.
C1_CopyOnlyIfUniqueAvailable ==
    RelocatedPending =>
        IF Len(lastMatching) = 1 /\ lastMatching[1].ty = "Available"
        THEN TRUE
        ELSE ~copied.done /\ apc # "running"

\* C5: new_at whose pinned allocation fails and whose fallback succeeds gives
\* should_be_at = Some(X) and a base other than X; a pinned success gives
\* should_be_at = None and base X; after a relocation that returned,
\* should_be_at = None and the base is X.
C5_FallbackAllocation ==
    lastNew.op = "new_at" /\ lastNew.result = "Ok" /\ apc = "running" =>
        IF lastNew.moved \/ lastNew.pinned
        THEN allocation.should_be_at = None /\ allocation.ptr = lastNew.address
        ELSE /\ allocation.should_be_at = Some(lastNew.address)
             /\ allocation.ptr # lastNew.address

\* a fallback allocation that has been relocated by a copy
C5_Witness == RelocatedPending /\ copied.done /\ apc = "running"

\* C14: calculate_page_count(L) is the ceiling of L / 4096, the least count of
\* pages that hold L bytes: L / 4096 when L is a multiple of the page size
\* (0 for L = 0), and one more than the whole pages otherwise.
C14_PageCountIsCeiling ==
    lastNew.op # "none" =>
        LET L == lastNew.size
            n == lastNew.count_pages
        IN  /\ n >= 0
            /\ n * PAGE_SIZE >= L
            /\ n > 0 => (n - 1) * PAGE_SIZE < L

\* a length of two whole pages counted as two pages, and no more
C14_Witness ==
    /\ lastNew.op # "none"
    /\ lastNew.size = 2 * PAGE_SIZE
    /\ lastNew.count_pages = 2
    /\ allocation.live

\* 4 GiB, and 200 MiB: the first address that is not below the ceiling
Below(quirks) ==
    IF "ModulesBelow200Mb" \in quirks THEN MB200 ELSE Addr(U32_MAX.pg + 1, 0)

\* the allocation lies wholly below addr
EndsBelow(alloc, addr) ==
    AddrLeq(AddrPlus(alloc.ptr, alloc.pages * PAGE_SIZE), addr)

\* the platform has count free pages in a row, all below addr
HasRoomBelow(addr, count) ==
    \E p \in Frames :
        /\ count > 0
        /\ FramesOf(p, count) \subseteq (Frames \ used)
        /\ p + count <= addr.pg

\* The last call allocated below a ceiling, or failed to: new_under_4gb, or
\* new_at whose pinned allocation failed; asked is the quirks the ceiling is
\* to follow.
BelowCeilingAsClaimed(asked) ==
    /\ lastNew.result = "Ok" /\ ~lastNew.moved =>
          allocation.live /\ EndsBelow(allocation, Below(asked))
    /\ lastNew.result = "LOAD_ERROR" =>
          /\ ~allocation.live
          /\ ~HasRoomBelow(Below(asked), lastNew.count_pages)

\* C18 as claimed: the ceiling is 4 GiB, or 200 MiB under the quirk
\* ModulesBelow200Mb, for new_under_4gb called with the quirks and for the
\* fallback of new_at for an entry with the quirks; a load error and no
\* allocation when the platform has no such pages.
C18_CeilingFollowsQuirk ==
    /\ lastNew.op = "new_under_4gb" => BelowCeilingAsClaimed(lastNew.quirks)
    /\ lastNew.op = "new_at" /\ ~lastNew.pinned => BelowCeilingAsClaimed(entry_quirks)

\* C18 as amended: the ceiling is 4 GiB, or 200 MiB under the quirk, for
\* new_under_4gb called with the quirks; for the fallback of new_at it is
\* 4 GiB whatever the entry's quirks; a load error and no allocation when the
\* platform has no such pages.
C18_CeilingOfFallbackIs4GiB ==
    /\ lastNew.op = "new_under_4gb" => BelowCeilingAsClaimed(lastNew.quirks)
    /\ lastNew.op = "new_at" /\ ~lastNew.pinned => BelowCeilingAsClaimed({})

\* for an entry with the quirk, a fallback allocation at or above 200 MiB
C18_Witness ==
    /\ lastNew.op = "new_at" /\ ~lastNew.pinned /\ lastNew.result = "Ok"
    /\ "ModulesBelow200Mb" \in entry_quirks
    /\ ~lastNew.moved
    /\ ~EndsBelow(allocation, MB200)

\* the range that Drop passes to free_pages
DropRange == <<allocation.ptr.pg, allocation.pages>>

\* C22: release matches acquisition. In every state of a tracked Allocation,
\* after any sequence of new_at, new_under_4gb and move_to_where_it_should_be,
\* the (base, page count) that its destruction passes to free_pages is a range
\* the platform handed out to it and that is not yet freed; once it is
\* destroyed nothing handed out is left unfreed (a fallback range is not
\* leaked, a target range never allocated is not freed).
C22_ReleaseMatchesAcquisition ==
    /\ allocation.live =>
          /\ allocation.ptr.off = 0
          /\ DropRange \in handed
          /\ FramesOf(allocation.ptr.pg, allocation.pages) \subseteq used
    /\ ~allocation.live /\ apc = "running" => handed = {}

\* the Allocation came from new_at's fallback and has been moved to its target
Relocated ==
    /\ allocation.live
    /\ lastNew.op = "new_at" /\ ~lastNew.pinned
    /\ ~allocation.should_be_at.some

\* C22 of an Allocation that was not relocated
C22_UnlessRelocated ==
    allocation.live /\ ~Relocated =>
          /\ allocation.ptr.off = 0
          /\ DropRange \in handed
          /\ FramesOf(allocation.ptr.pg, allocation.pages) \subseteq used

-----------------------------------------------------------------------------
(* Claims about prepare_entry and PreparedEntry *)

\* the last prepare_entry got as far as the modules and one of them failed
ModuleFailed ==
    /\ lastPrepare.kernel_range # <<>>
    /\ \E k \in DOMAIN lastPrepare.modules : lastPrepare.modules[k] = "fail"

\* C2: when reading a module fails, prepare_entry returns an error, retains no
\* module buffer, and the kernel page range it allocated has been freed.
C2_AllOrNothingModules ==
    ModuleFailed =>
        /\ lastPrepare.result = "Err"
        /\ ~prepared.live
        /\ lastPrepare.kernel_range \notin handed

AllocatorCalls == {"allocate_pages", "free_pages", "alloc", "dealloc"}

\* C3: while no boot transfer has started and no PreparedEntry is left, every
\* page range the platform handed out has been released (a second release
\* would be the panic of a failed free_pages); and nothing is allocated or
\* freed after exit_boot_services.
C3_ReleasedOnceNothingAfterExit ==
    /\ bpc = "idle" => handed = {}
    /\ bpc # "panic: failed to free the allocated memory for the kernel"
    /\ \A i, j \in DOMAIN events :
          i < j /\ events[i] = "exit_boot_services" => events[j] \notin AllocatorCalls

\* C4: the kernel is entered only after exit_boot_services, then the memory
\* map translation, then the pending relocation.
C4_BootOrder ==
    \A j \in DOMAIN events :
        events[j] = "jump" =>
            \E i, k \in 1..(j - 1) :
                /\ i < k
                /\ events[i] = "exit_boot_services"
                /\ events[k] = "prepare_information"

\* C6: a failed allocation pinned at load_address does not fail prepare_entry
\* when an allocation below the ceiling can be had: it goes on with an
\* allocation elsewhere.
C6_PinnedFailureRecovered ==
    lastPrepare.pinned_failed /\ lastPrepare.fallback_possible =>
        /\ lastPrepare.result = "Ok"
        /\ prepared.live
        /\ prepared.kernel_ptr # lastPrepare.addresses.load_address

\* C7: an image with the ELF address scheme, or with a malformed header, makes
\* prepare_entry return an error, with nothing allocated and nothing retained.
C7_RecoverableErrorsReturn ==
    lastPrepare.image = "ok" /\ lastPrepare.header \in {"Elf", "malformed"} =>
        /\ lastPrepare.result = "LOAD_ERROR"
        /\ bpc = "idle"
        /\ lastPrepare.kernel_range = <<>>
        /\ ~prepared.live

\* the last prepare_entry placed a kernel whose file holds its whole load segment
Placed ==
    /\ lastPrepare.kernel_range # <<>>
    /\ lastPrepare.addresses.load_offset + load_length(lastPrepare.addresses)
          <= Len(lastPrepare.kernel_vec)

\* C11: after the segment copy, with S = load_end - load_address and D the
\* destination length, destination byte i is file byte load_offset + i for
\* every i < S and zero for every S <= i < D.
C11_SegmentCopy ==
    Placed =>
        LET a == lastPrepare.addresses
            S == AddrDiff(a.load_end_address, a.load_address)
        IN  /\ \A i \in 0..(S - 1) :
                  /\ i + 1 \in DOMAIN kernel_buf
                  /\ kernel_buf[i + 1] = lastPrepare.kernel_vec[a.load_offset + i + 1]
            /\ \A i \in S..(Len(kernel_buf) - 1) : kernel_buf[i + 1] = 0

\* C12: the destination is bss_end - load_address bytes long when there is a
\* bss end and load_end - load_address bytes otherwise; the pages allocated
\* hold that many bytes, and it is never less than load_end - load_address.
C12_DestinationLength ==
    Placed =>
        LET a == lastPrepare.addresses
            S == AddrDiff(a.load_end_address, a.load_address)
            D == IF a.bss_end_address # NullAddr
                 THEN AddrDiff(a.bss_end_address, a.load_address)
                 ELSE S
        IN  /\ Len(kernel_buf) = D
            /\ lastPrepare.kernel_range[2] * PAGE_SIZE >= D
            /\ D >= S

\* the least number of pages that hold length bytes
CeilPages(length) == (length + PAGE_SIZE - 1) \div PAGE_SIZE

\* C13: every page allocation the program owns, an Allocation's or the
\* kernel's in a PreparedEntry, has as many pages as its byte length needs
\* and no more.
C13_PageCount ==
    /\ allocation.live => allocation.pages = CeilPages(allocation.len)
    /\ prepared.live =>
          prepared.kernel_pages = CeilPages(kernel_length(prepared.addresses))

-----------------------------------------------------------------------------
(* Claims about MultibootAllocator *)

\* C8: an address allocate(n) returned translates to a view of length n
\* whatever the probe length, and an address not allocated translates to
\* none; deallocate of an allocated address removes the entry, and deallocate
\* of a non-zero address that is not allocated (never, or no longer) panics.
C8_AdapterRoundTrip ==
    /\ lastCall.op = "allocate" /\ lastCall.result = "Some" =>
            /\ lastCall.addr \in DOMAIN allocations
            /\ allocations[lastCall.addr] = lastCall.length
    /\ lastCall.op = "paddr_to_slice" =>
            IF lastCall.known
            THEN /\ lastCall.result = "Some"
                 /\ lastCall.slice_len = requested[lastCall.addr]
            ELSE lastCall.result = "None"
    /\ lastCall.op = "deallocate" /\ lastCall.addr # NullAddr =>
            IF lastCall.known
            THEN mpc = "running" /\ lastCall.addr \notin DOMAIN allocations
            ELSE mpc # "running"

\* an allocated address translated with a probe longer than the allocation
C8_Witness ==
    /\ lastCall.op = "paddr_to_slice"
    /\ lastCall.known
    /\ lastCall.length > requested[lastCall.addr]

\* the address is at or above 2^32
AtOrAbove4GiB(a) == a.pg >= (U32_MAX.pg + 1)

\* C16: allocate returns none exactly when the host allocator fails or the
\* block lies at or above 4 GiB (address >= 2^32); a block at any address
\* below 4 GiB is returned, and recorded in the table with its size.
C16_RejectAtOrAbove4GiB ==
    lastCall.op = "allocate" =>
        IF lastCall.addr = NullAddr \/ AtOrAbove4GiB(lastCall.addr)
        THEN lastCall.result = "None" /\ lastCall.addr \notin DOMAIN allocations
        ELSE /\ lastCall.result = "Some"
             /\ lastCall.addr \in DOMAIN allocations
             /\ allocations[lastCall.addr] = lastCall.length

\* the blocks obtained from the host allocator and not yet released
Outstanding == heap

\* the blocks allocate turned down for their address
Rejected == {a \in heap : AddrLeq(U32_MAX, a)}

\* C23: after any sequence of allocate and deallocate calls the keys of the
\* allocation table are the host-allocator blocks obtained by allocate and not
\* yet released, the blocks rejected for their address included (each block is
\* in the table or released); address 0 is never a key and deallocate(0)
\* neither panics nor disturbs this.
C23_TableIsOutstandingBlocks ==
    /\ DOMAIN allocations = Outstanding
    /\ NullAddr \notin DOMAIN allocations
    /\ lastCall.op = "deallocate" /\ lastCall.addr = NullAddr => mpc = "running"

\* C23 but for the rejected blocks
C23_ButForRejected ==
    /\ DOMAIN allocations = Outstanding \ Rejected
    /\ NullAddr \notin DOMAIN allocations
    /\ lastCall.op = "deallocate" /\ lastCall.addr = NullAddr => mpc = "running"

-----------------------------------------------------------------------------
(* Claims about the boot menu *)

\* C19: in the countdown, a timer event returns the default entry and the list
\* of entries is never shown; only an ESC key leaves the countdown for the
\* prompt, the timer cancelled; any other key, and an invalid event index,
\* leave the countdown as it was, still waiting.
C19_Countdown ==
    /\ lastEvent.at = "countdown" /\ lastEvent.event = "timer" =>
          /\ cpc = "returned"
          /\ chosen = Choice(default_entry, "timer")
          /\ ~shown
    /\ lastEvent.at = "countdown" /\ cpc = "select" =>
          lastEvent.event = "key ESCAPE" /\ timer = "cancelled"
    /\ shown /\ config.timeout.some => timer = "cancelled"
    /\ lastEvent.at = "countdown"
          /\ lastEvent.event \in {"key other", "no key", "invalid event"} =>
          /\ cpc = "countdown"
          /\ timer = "armed"
          /\ ~shown
          /\ ~chosen.some
    /\ cpc = "countdown" => timer = "armed" /\ ~shown /\ ~chosen.some

\* a key other than ESC was read and the countdown goes on, the default entry
\* not being the first
C19_Witness ==
    /\ lastEvent.at = "countdown"
    /\ lastEvent.event = "key other"
    /\ cpc = "countdown"
    /\ default_entry # Nth(config.entries, 0).key

\* what is typed for the index i
IndexText(i) == <<(<<"0", "1", "2", "3", "4", "5", "6", "7", "8", "9">>)[i + 1]>>

\* the key at place i, from 0, of the entries in key order
KeyAt(entries, i) ==
    CHOOSE k \in entries : Cardinality({j \in entries : StrLess(j, k)}) = i

\* the places of the entries, as listed
Places(entries) == 0..(Cardinality(entries) - 1)

\* C20: Enter submits what was typed, and Backspace takes the last character
\* back. Typing an entry's key selects that entry, and typing an entry's place
\* in key order selects that entry; what designates no entry is an invalid
\* choice, after which the prompt is shown again; no entry from outside the
\* map is returned. (Stated of the turns whose writes to the console went
\* well: a failed write panics, see C21.)
C20_SelectByIndexAndKey ==
    /\ lastEvent.at = "select" /\ lastEvent.event = "CR"
          /\ lastEvent.stdout = "ok" =>
          LET typed == lastEvent.before
              entries == config.entries
          IN  /\ typed \in entries =>
                    lastEvent.result = "Ok" /\ chosen = Choice(typed, "select")
              /\ \A i \in Places(entries) :
                    typed = IndexText(i) =>
                        /\ lastEvent.result = "Ok"
                        /\ chosen = Choice(KeyAt(entries, i), "select")
              /\ typed \notin entries
                    /\ (\A i \in Places(entries) : typed # IndexText(i)) =>
                        /\ lastEvent.result = "Err"
                        /\ cpc = "select"
                        /\ value = <<>>
                        /\ ~chosen.some
    /\ lastEvent.at = "select" /\ lastEvent.event = "BS"
          /\ lastEvent.stdout = "ok" =>
          value = SubSeq(lastEvent.before, 1, Len(lastEvent.before) - 1)
    /\ lastEvent.at = "select" /\ lastEvent.event \in Chars
          /\ lastEvent.stdout = "ok" =>
          value = Append(lastEvent.before, lastEvent.event)
    /\ chosen.some => chosen.key \in config.entries

\* choose has been called
Called == cpc # "start"

\* choose ended in a panic
Panicked == cpc \notin {"start", "countdown", "select", "returned"}

\* displaying the menu failed with an error of the platform: the timer was not
\* created or set, an event or a key was not delivered during the countdown,
\* the timer was not cancelled, or the console did not take what was written
DisplayFailed ==
    \/ lastEvent.at = "choose" /\ lastEvent.event = "timer error"
    \/ lastEvent.at = "countdown"
          /\ lastEvent.event \in {"wait_for_event error", "read_key error"}
    \/ lastEvent.at = "countdown" /\ lastEvent.event = "key ESCAPE"
          /\ timer # "cancelled"
    \/ lastEvent.stdout = "error"

\* the default entry of the claim: the one keyed by config.default, or the
\* first in key order
DefaultAsClaimed ==
    IF config.default \in config.entries
    THEN config.default
    ELSE KeyAt(config.entries, 0)

\* C21: with a non-empty map choose returns a member of config.entries (it
\* does not panic); the default entry is the one keyed by config.default, or
\* the first in key order if that key is missing; with timeout 0 the default
\* entry is returned at once, no event waited for; if displaying the menu fails
\* with a platform error the default entry is returned; with no entries choose
\* panics.
C21_ChooseReturnsMember ==
    /\ Called /\ config.entries # {} =>
          /\ ~Panicked
          /\ default_entry = DefaultAsClaimed
          /\ cpc = "returned" => chosen.some /\ chosen.key \in config.entries
    /\ Called /\ config.entries # {} /\ config.timeout = SomeTimeout(0) =>
          /\ cpc = "returned"
          /\ chosen.some /\ chosen.key = DefaultAsClaimed
          /\ lastEvent = NoEvent
          /\ timer = "none"
          /\ ~shown
    /\ Called /\ config.entries # {} /\ DisplayFailed =>
          /\ cpc = "returned"
          /\ chosen.some /\ chosen.key = DefaultAsClaimed
    /\ Called /\ config.entries = {} => cpc = "panic: no entries"

\* C21 where the console takes every write
C21_WhileConsoleWorks == lastEvent.stdout # "error" => C21_ChooseReturnsMember

-----------------------------------------------------------------------------
(* Claims about prepare_information *)

\* descriptor y classifies as x does and begins where x ends
Adjacent(x, y) ==
    /\ Classify(y.ty) = Classify(x.ty)
    /\ y.phys_start = AddrPlus(x.phys_start, x.page_count * PAGE_SIZE)

\* where the maximal runs of adjacent descriptors begin
RunStarts(d) == {i \in DOMAIN d : i = 1 \/ ~Adjacent(d[i - 1], d[i])}

\* the k-th smallest member of a set of numbers
Kth(S, k) == CHOOSE i \in S : Cardinality({j \in S : j <= i}) = k

\* the bytes of the run that begins at descriptor i
RECURSIVE RunLength(_, _)
RunLength(d, i) ==
    d[i].page_count * PAGE_SIZE
        + (IF i < Len(d) /\ Adjacent(d[i], d[i + 1]) THEN RunLength(d, i + 1) ELSE 0)

Mergeable(e, f) == f.ty = e.ty /\ f.base = AddrPlus(e.base, e.length)

\* C9: the returned memory map has one entry per maximal run of consecutive
\* descriptors that classify alike and are base-contiguous, in order, with the
\* run's first base, its combined length and its type; no two consecutive
\* entries are of the same type and contiguous.
C9_MergeRuns ==
    ipc = "returned" =>
        LET d == mmap_in.descriptors
            starts == RunStarts(d)
        IN  /\ Len(mmap_out) = Cardinality(starts)
            /\ \A k \in 1..Cardinality(starts) :
                  mmap_out[k] = MemoryEntry(d[Kth(starts, k)].phys_start,
                                            RunLength(d, Kth(starts, k)),
                                            Classify(d[Kth(starts, k)].ty))
            /\ \A k \in 1..(Len(mmap_out) - 1) :
                  ~Mergeable(mmap_out[k], mmap_out[k + 1])

\* descriptors of different platform types coalesced into one entry, next to
\* an entry that stayed separate
C9_Witness ==
    /\ ipc = "returned"
    /\ Len(mmap_in.descriptors) = 3
    /\ Len(mmap_out) = 2
    /\ mmap_in.descriptors[1].ty # mmap_in.descriptors[2].ty
    /\ Adjacent(mmap_in.descriptors[1], mmap_in.descriptors[2])
    /\ mmap_out[1].length =
          (mmap_in.descriptors[1].page_count + mmap_in.descriptors[2].page_count)
              * PAGE_SIZE

\* the classification table
Table ==
    [LOADER_CODE |-> "Available", LOADER_DATA |-> "Available",
     BOOT_SERVICES_CODE |-> "Available", BOOT_SERVICES_DATA |-> "Available",
     CONVENTIONAL |-> "Available", PERSISTENT_MEMORY |-> "Available",
     RUNTIME_SERVICES_CODE |-> "Reserved", RUNTIME_SERVICES_DATA |-> "Reserved",
     UNUSABLE |-> "Defect", ACPI_RECLAIM |-> "ACPI", ACPI_NON_VOLATILE |-> "NVS"]

TableType(ty) == IF ty \in DOMAIN Table THEN Table[ty] ELSE "Reserved"

\* the place in the returned map of the entry that descriptor i went into
EntryOf(d, i) == Cardinality({j \in RunStarts(d) : j <= i})

\* C15: the type of every returned entry is what the classification table
\* gives for each descriptor merged into it, and Reserved for a descriptor of
\* any type the table does not name.
C15_Classification ==
    ipc = "returned" =>
        \A i \in DOMAIN mmap_in.descriptors :
            /\ EntryOf(mmap_in.descriptors, i) \in DOMAIN mmap_out
            /\ mmap_out[EntryOf(mmap_in.descriptors, i)].ty =
                  TableType(mmap_in.descriptors[i].ty)

\* a region of a type the table does not name, merged with a region of MMIO
C15_Witness ==
    /\ ipc = "returned"
    /\ Len(mmap_in.descriptors) = 2
    /\ mmap_in.descriptors[1].ty = "custom 0x80000000"
    /\ mmap_in.descriptors[2].ty = "MMIO"
    /\ Len(mmap_out) = 1
    /\ mmap_out[1].ty = "Reserved"

\* the bytes of the first k descriptors, and of the first k entries
RECURSIVE DescriptorBytes(_, _)
DescriptorBytes(d, k) ==
    IF k = 0 THEN 0 ELSE d[k].page_count * PAGE_SIZE + DescriptorBytes(d, k - 1)

RECURSIVE EntryBytes(_, _)
EntryBytes(e, k) == IF k = 0 THEN 0 ELSE e[k].length + EntryBytes(e, k - 1)

\* the pages the descriptors span, and the pages the entries span
DescriptorPages(d) ==
    UNION {FramesOf(d[k].phys_start.pg, d[k].page_count) : k \in DOMAIN d}

EntryPages(e) ==
    UNION {FramesOf(e[k].base.pg, e[k].length \div PAGE_SIZE) : k \in DOMAIN e}

\* bases in non-decreasing order
DescriptorsAscend(d) ==
    \A k \in 1..(Len(d) - 1) : AddrLeq(d[k].phys_start, d[k + 1].phys_start)

EntriesAscend(e) == \A k \in 1..(Len(e) - 1) : AddrLeq(e[k].base, e[k + 1].base)

\* the returned map spans what the descriptors span, and is the populated
\* prefix of the caller's buffer, nothing having been allocated
CoversAndIsPrefix ==
    /\ EntryBytes(mmap_out, Len(mmap_out))
          = DescriptorBytes(mmap_in.descriptors, Len(mmap_in.descriptors))
    /\ EntryPages(mmap_out) = DescriptorPages(mmap_in.descriptors)
    /\ Len(mmap_out) <= Len(mmap_in.buf)
    /\ Len(mb_mmap_buf) = Len(mmap_in.buf)
    /\ mmap_out = SubSeq(mb_mmap_buf, 1, Len(mmap_out))
    /\ mmap_out = merged
    /\ handed = {} /\ heap = {}

\* C17 as claimed: the returned map is non-decreasing in base address, spans
\* what the descriptors span (equal byte sums), and is the populated prefix of
\* the caller's buffer with nothing allocated.
C17_AscendingAndCovers ==
    ipc = "returned" => EntriesAscend(mmap_out) /\ CoversAndIsPrefix

\* C17 as amended: the returned map keeps the descriptors' order, so it is
\* non-decreasing in base address when the descriptors are; it spans what the
\* descriptors span and is the populated prefix of the caller's buffer with
\* nothing allocated.
C17_OrderKeptAndCovers ==
    ipc = "returned" =>
        /\ DescriptorsAscend(mmap_in.descriptors) => EntriesAscend(mmap_out)
        /\ CoversAndIsPrefix

\* ascending descriptors, some merged, returned in the first two entries of a
\* longer buffer
C17_Witness ==
    /\ ipc = "returned"
    /\ DescriptorsAscend(mmap_in.descriptors)
    /\ Len(mmap_in.descriptors) = 3
    /\ Len(mmap_out) = 2
    /\ mmap_out[1].base # mmap_out[2].base
    /\ Len(mb_mmap_buf) > 2

\* the populated entries that begin at 1 MiB
AtMiB1 == {k \in DOMAIN merged : merged[k].base = MiB1}

\* C10: lower memory is 640 and upper memory is length / 1024 of the populated
\* entry that begins at 1 MiB; with no such entry among the populated ones the
\* call panics, whatever the rest of the buffer holds.
C10_UpperMemory ==
    ipc \in {"returned", "panic: unwrap of None: no entry at 1 MiB"} =>
        IF AtMiB1 # {}
        THEN /\ ipc = "returned"
             /\ multiboot.set
             /\ multiboot.lower = 640
             /\ multiboot.upper = merged[Kth(AtMiB1, 1)].length \div 1024
        ELSE ipc # "returned"

====
